---- MODULE Spec2Model ----
(***************************************************************************)
(* Model of the task-manager client core: the task repository hook         *)
(* (src/src/hooks/useTasks.ts) with the session hook it embeds             *)
(* (src/src/hooks/useAuth.ts), the document database behind it and the     *)
(* live-query handles the database keeps open for it.                      *)
(*                                                                         *)
(* One hook instance is followed from its first render to its unmount.     *)
(* A React state change and the effect run it schedules are one step: the  *)
(* auth-state callback, the re-render, the cleanup of the previous effect  *)
(* and the new effect body are flushed together.                           *)
(*                                                                         *)
(* The components are followed one at a time, each under a specification   *)
(* of its own in which its collaborators are stubbed the way the           *)
(* repository's unit tests stub them: Spec and LiveSpec follow the hooks,  *)
(* FilterSpec the dashboard's filter controls, ValidationSpec the create   *)
(* form and the task card, AuthFormSpec the Register and Login pages,      *)
(* DashSpec the dashboard's mutating actions and their notifications.      *)
(* Two specifications put components together: RouteSpec follows the       *)
(* protected route with the dashboard and the hooks behind it, CardSpec    *)
(* the create form and one card through the dashboard's handlers down to   *)
(* the database.                                                           *)
(***************************************************************************)
EXTENDS Integers, Sequences, FiniteSets, TLC

VARIABLES
    phase,        \* "rendered" (first render done, effects not yet run), "active", "unmounted"
    user,         \* useAuth: user (uid or Null)
    authLoading,  \* useAuth: loading
    tasks,        \* useTasks: tasks
    loading,      \* useTasks: loading
    error,        \* useTasks: error (message or Null)
    cleanup,      \* the unsubscribe closure the last effect run returned (handle id, 0 = none)
    subs,         \* live-query listeners open at the database
    db,           \* documents of the 'tasks' collection
    nextId,       \* next document id the database will assign
    last,         \* the most recent event and what it did (history)
    \* TaskManager: the filter controls and the filtered view it renders
    filter, categoryFilter, priorityFilter, searchQuery, filteredTasks,
    \* TaskForm and TaskCard: the fields, the error messages and the call the
    \* latest step made to onSubmit / onEdit; NotRendered while not shown
    taskForm, taskCard,
    \* the Register and Login pages: the fields, the message shown and what
    \* the latest step did; NotRendered while on another route
    register, login,
    \* TaskManager: the form and modal switches, the notification with the
    \* time it was shown, the pending setTimeout callbacks, the clock, the
    \* handlers waiting for their operation, and what the latest step did
    showForm, showLogoutModal, notification, shownAt, timers, now, pending, dashEvent,
    \* TaskCard (one per shown task): its delete confirmation switch
    showDeleteModal,
    \* the router's location, the identity service's current user, and the
    \* useAuth instance and output of ProtectedRoute
    location, currentUser, guardUser, guardLoading, routeView

hookVars == <<phase, user, authLoading, tasks, loading, error, cleanup, subs, db, nextId, last>>
filterVars == <<filter, categoryFilter, priorityFilter, searchQuery, filteredTasks>>

\* everything outside the two hooks
formVars == <<taskForm, taskCard>>
authVars == <<register, login>>
dashVars == <<showForm, showLogoutModal, notification, shownAt, timers, now, pending, dashEvent,
              showDeleteModal>>
routeVars == <<location, currentUser, guardUser, guardLoading, routeView>>
uiVars == <<filterVars, formVars, authVars, dashVars, routeVars>>

\* what the steps of one component leave alone
filterFrame == <<hookVars, formVars, authVars, dashVars, routeVars>>
formFrame == <<hookVars, filterVars, authVars, dashVars, routeVars>>
authFrame == <<hookVars, filterVars, formVars, dashVars, routeVars>>
dashFrame == <<hookVars, filterVars, formVars, authVars, routeVars>>
routeFrame == <<filterVars, formVars, authVars, dashVars>>
cardFrame == <<phase, user, authLoading, last, filterVars, authVars, showLogoutModal, now,
               pending, showDeleteModal, routeVars>>

vars == <<hookVars, uiVars>>

----------------------------------------------------------------------------
(* Bounds *)

MaxDocs == 2
MaxLiveDocs == 1
\* tasks in the collection handed to the dashboard's filter
MaxTasks == 2
\* blanks typed before and after a text
MaxPad == 1
\* seconds of dashboard time followed
MaxTicks == 4
\* dashboard handlers waiting for their operation at the same time
MaxPending == 1

----------------------------------------------------------------------------
(* Values *)

Null == "null"
Users == {"u1", "u2"}
Titles == {"a"}

\* the underlying outcome of one database write: "none" is success, anything
\* else the error the write rejects with
DbErrors == {"none", "unavailable"}

Empty == [k \in {} |-> 0]

\* { ...base, ...over }
Spread(base, over) ==
    [k \in (DOMAIN base) \cup (DOMAIN over) |->
        IF k \in DOMAIN over THEN over[k] ELSE base[k]]

\* the length limits of the task validation and of the registration
MinTitleLength == 3
MinDescriptionLength == 10
MinPasswordLength == 6

\* the auto-dismiss delay of a notification, in ms
NotificationDelay == 3000

----------------------------------------------------------------------------
(* The document database (firebase/firestore), as far as the hook uses it *)

DocIds == 1..MaxDocs

RECURSIVE SortById(_)
SortById(S) ==
    IF S = {} THEN <<>>
    ELSE LET d == CHOOSE x \in S : \A y \in S : x.id <= y.id
         IN <<d>> \o SortById(S \ {d})

\* query(collection(db, 'tasks'), where('userId', '==', uid)): the documents
\* a snapshot of that query holds, in document-id order
QueryDocs(D, uid) ==
    SortById({d \in D : "userId" \in DOMAIN d.data /\ d.data.userId = uid})

\* addDoc(collection, rec): one write attempt; the database assigns the id
addDoc(B, rec, dbErr) ==
    IF dbErr = "none"
    THEN [ok |-> TRUE,
          db |-> B.db \cup {[id |-> B.nextId, data |-> rec]},
          nextId |-> B.nextId + 1]
    ELSE [ok |-> FALSE, db |-> B.db, nextId |-> B.nextId]

\* updateDoc(doc(db, 'tasks', id), partial): merges the fields into an
\* existing document; fails when the document does not exist
updateDoc(B, id, partial, dbErr) ==
    IF dbErr = "none" /\ \E d \in B.db : d.id = id
    THEN [ok |-> TRUE,
          db |-> {IF d.id = id THEN [d EXCEPT !.data = Spread(d.data, partial)] ELSE d
                    : d \in B.db},
          nextId |-> B.nextId]
    ELSE [ok |-> FALSE, db |-> B.db, nextId |-> B.nextId]

\* deleteDoc(doc(db, 'tasks', id))
deleteDoc(B, id, dbErr) ==
    IF dbErr = "none"
    THEN [ok |-> TRUE, db |-> {d \in B.db : d.id # id}, nextId |-> B.nextId]
    ELSE [ok |-> FALSE, db |-> B.db, nextId |-> B.nextId]

\* onSnapshot(q, next, error): a fresh listener, no event delivered yet
NewHid(S) == CHOOSE n \in 1..(Cardinality(S) + 1) : \A s \in S : s.hid # n

onSnapshot(S, hid, uid) == S \cup {[hid |-> hid, owner |-> uid, status |-> "pending"]}

\* the unsubscribe function onSnapshot returned for listener hid
unsubscribe(S, hid) == {s \in S : s.hid # hid}

----------------------------------------------------------------------------
(* useTasks: the subscription effect.  h is the hook's React state together *)
(* with the listeners it opened: [tasks, loading, error, cleanup, subs]     *)

LoadFailed == "Failed to load tasks. Please refresh the page."

\* variant: the cleanup forgets to unsubscribe
EffectCleanup_Leak(h) == [h EXCEPT !.cleanup = 0]

\* cleanup of the previous effect run: `return unsubscribe`
EffectCleanup(h) ==
    IF h.cleanup = 0 THEN h
    ELSE [h EXCEPT !.subs = unsubscribe(h.subs, h.cleanup), !.cleanup = 0]

\* variant: the no-user branch leaves the task collection alone
EffectBody_KeepTasks(u, h) ==
    IF u = Null
    THEN [h EXCEPT !.loading = FALSE]
    ELSE LET hid == NewHid(h.subs)
         IN [h EXCEPT !.error = Null,
                      !.subs = onSnapshot(h.subs, hid, u),
                      !.cleanup = hid]

\* the effect body, run with the user of the committed render
EffectBody(u, h) ==
    IF u = Null
    THEN [h EXCEPT !.tasks = <<>>, !.loading = FALSE]
    ELSE LET hid == NewHid(h.subs)
         IN [h EXCEPT !.error = Null,
                      !.subs = onSnapshot(h.subs, hid, u),
                      !.cleanup = hid]

\* [user] changed: React runs the old cleanup, then the body
RunEffect(u, h) == EffectBody(u, EffectCleanup(h))

\* snapshot.docs.map((doc) => ({ id: doc.id, ...doc.data() }))
tasksData(docs) == [i \in 1..Len(docs) |-> Spread([id |-> docs[i].id], docs[i].data)]

\* variant: the next callback forgets setTasks
SnapshotNext_KeepsTasks(h, docs) == [h EXCEPT !.loading = FALSE]

\* variant: the snapshot is merged into the previous collection
SnapshotNext_Merge(h, docs) ==
    [h EXCEPT !.tasks = h.tasks \o tasksData(docs), !.loading = FALSE]

\* the listener's next callback
SnapshotNext(h, docs) == [h EXCEPT !.tasks = tasksData(docs), !.loading = FALSE]

\* variant: the error callback also drops the task collection
SnapshotError_DropsTasks(h) ==
    [h EXCEPT !.tasks = <<>>, !.error = LoadFailed, !.loading = FALSE]

\* the listener's error callback
SnapshotError(h) == [h EXCEPT !.error = LoadFailed, !.loading = FALSE]

----------------------------------------------------------------------------
(* useTasks: the four mutations.  Each returns what the call did: the      *)
(* promise's outcome ("ok" or the message of the Error it rejects with),   *)
(* the number of database writes attempted and whether the write went      *)
(* through, the record handed to the database and the database afterwards. *)

Outcome(w, n, rec, failMsg) ==
    [result |-> IF w.ok THEN "ok" ELSE failMsg, writes |-> n, ok |-> w.ok,
     sent |-> rec, db |-> w.db, nextId |-> w.nextId]

\* variant: { completed: false, userId: user.uid, ...task }
AddRecord_CallerWins(task, uid) == Spread([completed |-> FALSE, userId |-> uid], task)

\* { ...task, completed: false, userId: user.uid }
AddRecord(task, uid) == Spread(task, [completed |-> FALSE, userId |-> uid])

\* variant: no `if (!user) throw`
addTaskCall_NoGuard(u, task, dbErr, B) ==
    LET rec == AddRecord(task, u)
    IN Outcome(addDoc(B, rec, dbErr), 1, rec, "Failed to add task")

addTaskCall(u, task, dbErr, B) ==
    IF u = Null
    THEN [result |-> "User not authenticated", writes |-> 0, ok |-> FALSE,
          sent |-> Empty, db |-> B.db, nextId |-> B.nextId]
    ELSE LET rec == AddRecord(task, u)
         IN Outcome(addDoc(B, rec, dbErr), 1, rec, "Failed to add task")

updateTaskCall(id, updatedTask, dbErr, B) ==
    Outcome(updateDoc(B, id, updatedTask, dbErr), 1, updatedTask, "Failed to update task")

\* variant: deleteTask starts with the `if (!user) throw` of addTask
deleteTaskCall_Guarded(id, dbErr, B) ==
    IF user = Null
    THEN [result |-> "User not authenticated", writes |-> 0, ok |-> FALSE,
          sent |-> Empty, db |-> B.db, nextId |-> B.nextId]
    ELSE Outcome(deleteDoc(B, id, dbErr), 1, Empty, "Failed to delete task")

deleteTaskCall(id, dbErr, B) ==
    Outcome(deleteDoc(B, id, dbErr), 1, Empty, "Failed to delete task")

\* variant: the catch block of updateTask pasted into toggleTaskCompletion
toggleTaskCompletionCall_WrongMessage(id, completed, dbErr, B) ==
    LET rec == [completed |-> completed]
    IN Outcome(updateDoc(B, id, rec, dbErr), 1, rec, "Failed to update task")

toggleTaskCompletionCall(id, completed, dbErr, B) ==
    LET rec == [completed |-> completed]
    IN Outcome(updateDoc(B, id, rec, dbErr), 1, rec, "Failed to update task status")

----------------------------------------------------------------------------
(* Inputs *)

OptionalFields(S) == {Empty} \cup S

\* what a caller may hand to addTask: the form's fields, or those together
\* with fields of the same name as the ones addTask sets itself

AddPayloads ==
    {[title |-> t] : t \in Titles}
        \cup {[title |-> t, completed |-> TRUE, userId |-> x] : t \in Titles, x \in Users}

\* Partial<Task> handed to updateTask
UpdatePayloads ==
    {Spread([title |-> t], c) :
        t \in Titles,
        c \in OptionalFields({[completed |-> b] : b \in BOOLEAN})}

----------------------------------------------------------------------------
(* State machine *)

Hook == [tasks |-> tasks, loading |-> loading, error |-> error,
         cleanup |-> cleanup, subs |-> subs]

SetHook(h) ==
    /\ tasks' = h.tasks
    /\ loading' = h.loading
    /\ error' = h.error
    /\ cleanup' = h.cleanup
    /\ subs' = h.subs

Base == [db |-> db, nextId |-> nextId]

Event(op) ==
    [op |-> op, prevUser |-> user, delivered |-> Null, payload |-> Empty,
     sent |-> Empty, writes |-> 0, ok |-> FALSE, result |-> "none", docs |-> <<>>]

MutationEvent(op, payload, o) ==
    [Event(op) EXCEPT !.payload = payload, !.sent = o.sent, !.writes = o.writes,
                      !.ok = o.ok, !.result = o.result]

\* useState initial values of TaskManager's filter controls
FilterStateInit ==
    /\ filter = "all"
    /\ searchQuery = <<>>
    /\ categoryFilter = "all"
    /\ priorityFilter = "all"
    /\ filteredTasks = <<>>

\* no create form and no card is rendered before tasks are loaded
NotRendered == [rendered |-> FALSE]

FormStateInit ==
    /\ taskForm = NotRendered
    /\ taskCard = NotRendered

\* neither page is rendered while the dashboard route is shown
AuthStateInit ==
    /\ register = NotRendered
    /\ login = NotRendered

NoNotification == [shown |-> FALSE]

DashEvent(kind, p, outcome, calls) ==
    [kind |-> kind, op |-> p, outcome |-> outcome, calls |-> calls, args |-> Empty]

NoOp == [op |-> "none", id |-> 0, completed |-> FALSE]

\* the ids of the tasks the dashboard shows a card for
CardIds == {1, 2}

\* useState initial values of TaskManager's switches and notification, no
\* timer set, no handler running
DashStateInit ==
    /\ showForm = FALSE
    /\ showLogoutModal = FALSE
    /\ notification = NoNotification
    /\ shownAt = 0
    /\ timers = {}
    /\ now = 0
    /\ pending = {}
    /\ dashEvent = DashEvent("init", NoOp, "none", 0)
    /\ showDeleteModal = [i \in CardIds |-> FALSE]

\* variant: the guard looks at the user only
ProtectedRoute_IgnoresLoading(isLoading, u) ==
    IF u # Null THEN "outlet" ELSE "login"

\* ProtectedRoute: the loading indicator, <Outlet /> or <Navigate to="/login" />
ProtectedRoute(isLoading, u) ==
    IF isLoading THEN "loading"
    ELSE IF u # Null THEN "outlet" ELSE "login"

\* the first render of ProtectedRoute at "/": useState initial values of its
\* useAuth
GuardFirstRender ==
    /\ location = "/"
    /\ guardUser = Null
    /\ guardLoading = TRUE
    /\ routeView = ProtectedRoute(TRUE, Null)

RouteStateInit == currentUser = Null /\ GuardFirstRender

UiInit == FilterStateInit /\ FormStateInit /\ AuthStateInit /\ DashStateInit /\ RouteStateInit

\* useState initial values of useAuth and useTasks: the first render
Init ==
    /\ phase = "rendered"
    /\ user = Null
    /\ authLoading = TRUE
    /\ tasks = <<>>
    /\ loading = TRUE
    /\ error = Null
    /\ cleanup = 0
    /\ subs = {}
    /\ db = {}
    /\ nextId = 1
    /\ last = Event("init")
    /\ UiInit

\* the effects of the first commit
MountEffect ==
    /\ phase = "rendered"
    /\ phase' = "active"
    /\ SetHook(RunEffect(user, Hook))
    /\ last' = Event("mount")
    /\ UNCHANGED <<user, authLoading, db, nextId>>
    /\ UNCHANGED uiVars

\* variant: the callback sets the user but not the loading flag
AuthStateChanged_KeepsLoading(u) ==
    /\ phase = "active"
    /\ user' = u
    /\ IF u # user THEN SetHook(RunEffect(u, Hook))
                   ELSE UNCHANGED <<tasks, loading, error, cleanup, subs>>
    /\ last' = [Event("auth") EXCEPT !.delivered = u]
    /\ UNCHANGED <<phase, authLoading, db, nextId>>
    /\ UNCHANGED uiVars

\* useAuth's onAuthStateChanged callback, and the effect of useTasks that
\* the new user triggers
AuthStateChanged(u) ==
    /\ phase = "active"
    /\ user' = u
    /\ authLoading' = FALSE
    /\ IF u # user THEN SetHook(RunEffect(u, Hook))
                   ELSE UNCHANGED <<tasks, loading, error, cleanup, subs>>
    /\ last' = [Event("auth") EXCEPT !.delivered = u]
    /\ UNCHANGED <<phase, db, nextId>>
    /\ UNCHANGED uiVars

\* the database pushes a snapshot to an open listener
SnapshotDelivered(s) ==
    /\ phase = "active"
    /\ s \in subs
    /\ s.status # "failed"
    /\ LET docs == QueryDocs(db, s.owner)
           h == SnapshotNext(Hook, docs)
       IN /\ SetHook([h EXCEPT !.subs = (subs \ {s}) \cup {[s EXCEPT !.status = "live"]}])
          /\ last' = [Event("snapshot") EXCEPT !.docs = docs]
    /\ UNCHANGED <<phase, user, authLoading, db, nextId>>
    /\ UNCHANGED uiVars

\* the database reports an error on an open listener, which ends it
SnapshotFailed(s) ==
    /\ phase = "active"
    /\ s \in subs
    /\ s.status # "failed"
    /\ LET h == SnapshotError(Hook)
       IN SetHook([h EXCEPT !.subs = (subs \ {s}) \cup {[s EXCEPT !.status = "failed"]}])
    /\ last' = Event("snapError")
    /\ UNCHANGED <<phase, user, authLoading, db, nextId>>
    /\ UNCHANGED uiVars

addTask(task, dbErr) ==
    /\ phase = "active"
    /\ (user # Null /\ dbErr = "none") => nextId <= MaxDocs
    /\ LET o == addTaskCall(user, task, dbErr, Base)
       IN /\ db' = o.db
          /\ nextId' = o.nextId
          /\ last' = MutationEvent("add", task, o)
    /\ UNCHANGED <<phase, user, authLoading, tasks, loading, error, cleanup, subs>>
    /\ UNCHANGED uiVars

updateTask(id, updatedTask, dbErr) ==
    /\ phase = "active"
    /\ LET o == updateTaskCall(id, updatedTask, dbErr, Base)
       IN /\ db' = o.db
          /\ nextId' = o.nextId
          /\ last' = MutationEvent("update", Empty, [o EXCEPT !.sent = Empty])
    /\ UNCHANGED <<phase, user, authLoading, tasks, loading, error, cleanup, subs>>
    /\ UNCHANGED uiVars

\* variant: deleteTask also removes the task from the local collection
deleteTask_Optimistic(id, dbErr) ==
    /\ phase = "active"
    /\ LET o == deleteTaskCall(id, dbErr, Base)
       IN /\ db' = o.db
          /\ nextId' = o.nextId
          /\ last' = MutationEvent("delete", Empty, [o EXCEPT !.sent = Empty])
    /\ tasks' = SelectSeq(tasks, LAMBDA t : t.id # id)
    /\ UNCHANGED <<phase, user, authLoading, loading, error, cleanup, subs>>
    /\ UNCHANGED uiVars

deleteTask(id, dbErr) ==
    /\ phase = "active"
    /\ LET o == deleteTaskCall(id, dbErr, Base)
       IN /\ db' = o.db
          /\ nextId' = o.nextId
          /\ last' = MutationEvent("delete", Empty, [o EXCEPT !.sent = Empty])
    /\ UNCHANGED <<phase, user, authLoading, tasks, loading, error, cleanup, subs>>
    /\ UNCHANGED uiVars

toggleTaskCompletion(id, completed, dbErr) ==
    /\ phase = "active"
    /\ LET o == toggleTaskCompletionCall(id, completed, dbErr, Base)
       IN /\ db' = o.db
          /\ nextId' = o.nextId
          /\ last' = MutationEvent("toggle", Empty, [o EXCEPT !.sent = Empty])
    /\ UNCHANGED <<phase, user, authLoading, tasks, loading, error, cleanup, subs>>
    /\ UNCHANGED uiVars

\* the component unmounts: both effects' cleanups run
Unmount ==
    /\ phase = "active"
    /\ phase' = "unmounted"
    /\ SetHook(EffectCleanup(Hook))
    /\ last' = Event("unmount")
    /\ UNCHANGED <<user, authLoading, db, nextId>>
    /\ UNCHANGED uiVars

Next ==
    \/ MountEffect
    \/ \E u \in Users \cup {Null} : AuthStateChanged(u)
    \/ \E s \in subs : SnapshotDelivered(s)
    \/ \E s \in subs : SnapshotFailed(s)
    \/ \E task \in AddPayloads, e \in DbErrors : addTask(task, e)
    \/ \E id \in DocIds, p \in UpdatePayloads, e \in DbErrors : updateTask(id, p, e)
    \/ \E id \in DocIds, e \in DbErrors : deleteTask(id, e)
    \/ \E id \in DocIds, c \in BOOLEAN, e \in DbErrors : toggleTaskCompletion(id, c, e)
    \/ Unmount

Spec == Init /\ [][Next]_vars

\* the mutations that go through, from the dashboard's forms
LiveNext ==
    \/ MountEffect
    \/ \E u \in Users \cup {Null} : AuthStateChanged(u)
    \/ \E s \in subs : SnapshotDelivered(s)
    \/ \E s \in subs : SnapshotFailed(s)
    \/ \E t \in Titles : nextId <= MaxLiveDocs /\ addTask([title |-> t], "none")
    \/ \E id \in 1..MaxLiveDocs, p \in UpdatePayloads : updateTask(id, p, "none")
    \/ \E id \in 1..MaxLiveDocs : deleteTask(id, "none")
    \/ \E id \in 1..MaxLiveDocs, c \in BOOLEAN : toggleTaskCompletion(id, c, "none")
    \/ Unmount

\* the database delivers a snapshot to an open listener after every change
\* of the query's result
LiveSpec == Init /\ [][LiveNext]_vars /\ WF_vars(\E s \in subs : SnapshotDelivered(s))

----------------------------------------------------------------------------
(* TaskManager: the filter controls and the filtered view.  Text is a      *)
(* sequence of one-character strings.                                      *)

LowerOf == ("A" :> "a") @@ ("B" :> "b") @@ ("D" :> "d")

\* String.prototype.toLowerCase
toLowerCase(s) == [i \in 1..Len(s) |-> IF s[i] \in DOMAIN LowerOf THEN LowerOf[s[i]] ELSE s[i]]

\* String.prototype.includes
includes(s, q) == \E off \in 0..(Len(s) - Len(q)) : SubSeq(s, off + 1, off + Len(q)) = q

\* the callback of tasks.filter with the search looked at first
TaskPasses_SearchFirst(task, f, cat, prio, q) ==
    IF q # <<>>
    THEN LET query == toLowerCase(q)
         IN \/ includes(toLowerCase(task.title), query)
            \/ includes(toLowerCase(task.description), query)
    ELSE IF f = "completed" /\ ~task.completed THEN FALSE
    ELSE IF f = "active" /\ task.completed THEN FALSE
    ELSE IF cat # "all" /\ task.category # cat THEN FALSE
    ELSE IF prio # "all" /\ task.priority # prio THEN FALSE
    ELSE TRUE

\* the callback of tasks.filter without the priority check
TaskPasses_NoPriority(task, f, cat, prio, q) ==
    IF f = "completed" /\ ~task.completed THEN FALSE
    ELSE IF f = "active" /\ task.completed THEN FALSE
    ELSE IF cat # "all" /\ task.category # cat THEN FALSE
    ELSE IF q # <<>>
    THEN LET query == toLowerCase(q)
         IN \/ includes(toLowerCase(task.title), query)
            \/ includes(toLowerCase(task.description), query)
    ELSE TRUE

\* the callback of tasks.filter: each failed check returns false, the search
\* is looked at last
TaskPasses(task, f, cat, prio, q) ==
    IF f = "completed" /\ ~task.completed THEN FALSE
    ELSE IF f = "active" /\ task.completed THEN FALSE
    ELSE IF cat # "all" /\ task.category # cat THEN FALSE
    ELSE IF prio # "all" /\ task.priority # prio THEN FALSE
    ELSE IF q # <<>>
    THEN LET query == toLowerCase(q)
         IN \/ includes(toLowerCase(task.title), query)
            \/ includes(toLowerCase(task.description), query)
    ELSE TRUE

\* the filtered view, last match first
filterTasks_Reversed(ts, f, cat, prio, q) ==
    LET kept == SelectSeq(ts, LAMBDA task : TaskPasses(task, f, cat, prio, q))
    IN [i \in 1..Len(kept) |-> kept[Len(kept) + 1 - i]]

\* const filteredTasks = tasks.filter(...)
filterTasks(ts, f, cat, prio, q) ==
    SelectSeq(ts, LAMBDA task : TaskPasses(task, f, cat, prio, q))

\* the options of the three select controls and the texts typed in the
\* search box
StatusOptions == {"all", "active", "completed"}
CategoryOptions == {"all", "Personal", "Work"}
PriorityOptions == {"all", "low", "high"}
SearchQueries == {<<>>, <<"a", "B">>, <<"d">>}

\* the tasks the hook can hand to the dashboard
TaskTexts ==
    {[title |-> <<"x", "A", "b">>, description |-> <<"c">>],
     [title |-> <<"c">>, description |-> <<"D", "x">>]}

TaskShapes ==
    [completed : BOOLEAN, category : CategoryOptions \ {"all"},
     priority : PriorityOptions \ {"all"}, text : TaskTexts]

DashTask(i, sh) ==
    [id |-> i, title |-> sh.text.title, description |-> sh.text.description,
     category |-> sh.category, priority |-> sh.priority, completed |-> sh.completed]

TaskCollections ==
    UNION {{[i \in 1..n |-> DashTask(i, f[i])] : f \in [1..n -> TaskShapes]} : n \in 0..MaxTasks}

\* useAuth and useTasks as a component sees them once the session and the
\* tasks are loaded
HookStub(u, ts) ==
    /\ phase = "active"
    /\ user = u
    /\ authLoading = FALSE
    /\ tasks = ts
    /\ loading = FALSE
    /\ error = Null
    /\ cleanup = 0
    /\ subs = {}
    /\ db = {}
    /\ nextId = 1
    /\ last = Event("init")

\* the dashboard's first render over a loaded collection
FilterInit ==
    /\ \E ts \in TaskCollections : HookStub("u1", ts)
    /\ filter = "all"
    /\ searchQuery = <<>>
    /\ categoryFilter = "all"
    /\ priorityFilter = "all"
    /\ filteredTasks = filterTasks(tasks, "all", "all", "all", <<>>)
    /\ FormStateInit
    /\ AuthStateInit
    /\ DashStateInit
    /\ RouteStateInit

\* the render that follows a change of a filter control
Render(f, cat, prio, q) ==
    /\ filter' = f
    /\ categoryFilter' = cat
    /\ priorityFilter' = prio
    /\ searchQuery' = q
    /\ filteredTasks' = filterTasks(tasks, f, cat, prio, q)
    /\ UNCHANGED filterFrame

setSearchQuery(q) == Render(filter, categoryFilter, priorityFilter, q)

setFilter(f) == Render(f, categoryFilter, priorityFilter, searchQuery)

setCategoryFilter(cat) == Render(filter, cat, priorityFilter, searchQuery)

setPriorityFilter(prio) == Render(filter, categoryFilter, prio, searchQuery)

FilterNext ==
    \/ \E q \in SearchQueries : setSearchQuery(q)
    \/ \E f \in StatusOptions : setFilter(f)
    \/ \E cat \in CategoryOptions : setCategoryFilter(cat)
    \/ \E prio \in PriorityOptions : setPriorityFilter(prio)

FilterSpec == FilterInit /\ [][FilterNext]_vars

----------------------------------------------------------------------------
(* TaskForm and TaskCard: validation of the task fields.  Titles and       *)
(* descriptions are sequences of one-character strings, dates are strings. *)

RECURSIVE trimStart(_)
trimStart(s) == IF s # <<>> /\ Head(s) = " " THEN trimStart(Tail(s)) ELSE s

RECURSIVE trimEnd(_)
trimEnd(s) == IF s # <<>> /\ s[Len(s)] = " " THEN trimEnd(SubSeq(s, 1, Len(s) - 1)) ELSE s

\* variant: only leading white space is removed
trim_StartOnly(s) == trimStart(s)

\* String.prototype.trim
trim(s) == trimEnd(trimStart(s))

NoErrors == [title |-> "", description |-> "", dueDate |-> ""]

TitleError(title) ==
    IF trim(title) = <<>> THEN "Title is required"
    ELSE IF Len(trim(title)) < MinTitleLength THEN "Title must be at least 3 characters"
    ELSE ""

DescriptionError(description) ==
    IF trim(description) = <<>> THEN "Description is required"
    ELSE IF Len(trim(description)) < MinDescriptionLength
         THEN "Description must be at least 10 characters"
    ELSE ""

\* TaskForm.validateForm measuring the texts as typed
validateForm_NoTrim(title, description, dueDate) ==
    [title |-> IF title = <<>> THEN "Title is required"
               ELSE IF Len(title) < MinTitleLength THEN "Title must be at least 3 characters"
               ELSE "",
     description |-> IF description = <<>> THEN "Description is required"
                     ELSE IF Len(description) < MinDescriptionLength
                          THEN "Description must be at least 10 characters"
                     ELSE "",
     dueDate |-> IF dueDate = "" THEN "Due date is required" ELSE ""]

\* TaskForm.validateForm: newErrors, "" where no message is set
validateForm(title, description, dueDate) ==
    [title |-> TitleError(title),
     description |-> DescriptionError(description),
     dueDate |-> IF dueDate = "" THEN "Due date is required" ELSE ""]

\* TaskCard.validateTask: newErrors, "" where no message is set
validateTask(editedTask) ==
    [title |-> TitleError(editedTask.title),
     description |-> DescriptionError(editedTask.description),
     dueDate |-> ""]

\* the texts typed into the two forms
Chars(n) == [i \in 1..n |-> "a"]
Spaced(n) == [i \in 1..n |-> IF i = 2 THEN " " ELSE "a"]
Spaces(n) == [i \in 1..n |-> " "]
Padded(bodies) == {Spaces(l) \o b \o Spaces(r) : l \in 0..MaxPad, r \in 0..MaxPad, b \in bodies}

TitleInputs ==
    Padded({Chars(0), Chars(MinTitleLength - 1), Chars(MinTitleLength), Spaced(MinTitleLength)})

DescriptionInputs ==
    Padded({Chars(0), Chars(MinDescriptionLength - 1), Chars(MinDescriptionLength),
            Spaced(MinDescriptionLength)})

Today == "2025-01-15"
DateInputs == {"", Today}

\* useState initial values of TaskForm
TaskFormInit ==
    [rendered |-> TRUE, title |-> <<>>, description |-> <<>>, category |-> "Personal",
     priority |-> "medium", dueDate |-> Today, errors |-> NoErrors,
     op |-> "render", called |-> FALSE, submitted |-> Empty]

\* useState initial values of a TaskCard rendered for a stored task
TaskCardInit ==
    [rendered |-> TRUE,
     task |-> [id |-> 1, title |-> Chars(MinTitleLength),
               description |-> Chars(MinDescriptionLength), category |-> "Personal",
               priority |-> "medium", dueDate |-> Today, completed |-> FALSE],
     editedTask |-> [id |-> 1, title |-> Chars(MinTitleLength),
                     description |-> Chars(MinDescriptionLength), category |-> "Personal",
                     priority |-> "medium", dueDate |-> Today, completed |-> FALSE],
     isEditing |-> FALSE, errors |-> NoErrors,
     op |-> "render", called |-> FALSE, submitted |-> Empty]

ValidationInit ==
    /\ HookStub("u1", <<>>)
    /\ FilterStateInit
    /\ AuthStateInit
    /\ DashStateInit
    /\ RouteStateInit
    /\ \/ taskForm = TaskFormInit /\ taskCard = NotRendered
       \/ taskForm = NotRendered /\ taskCard = TaskCardInit

\* onChange of a TaskForm input: the field is set and its message cleared
TaskForm_setField(field, v) ==
    /\ taskForm.rendered
    /\ taskForm' = [taskForm EXCEPT ![field] = v, !.errors[field] = "",
                                    !.op = "edit", !.called = FALSE, !.submitted = Empty]
    /\ UNCHANGED <<formFrame, taskCard>>

\* TaskForm.handleSubmit: validate; when valid, hand the trimmed fields to
\* onSubmit and reset the form
TaskForm_handleSubmit ==
    /\ taskForm.rendered
    /\ LET newErrors == validateForm(taskForm.title, taskForm.description, taskForm.dueDate)
       IN taskForm' =
              IF newErrors # NoErrors
              THEN [taskForm EXCEPT !.errors = newErrors, !.op = "submit", !.called = FALSE, !.submitted = Empty]
              ELSE [TaskFormInit EXCEPT
                       !.op = "submit", !.called = TRUE,
                       !.submitted = [title |-> trim(taskForm.title),
                                      description |-> trim(taskForm.description),
                                      category |-> taskForm.category,
                                      priority |-> taskForm.priority,
                                      dueDate |-> taskForm.dueDate]]
    /\ UNCHANGED <<formFrame, taskCard>>

\* the card's Edit button
TaskCard_setIsEditing ==
    /\ taskCard.rendered /\ ~taskCard.isEditing
    /\ taskCard' = [taskCard EXCEPT !.isEditing = TRUE, !.op = "edit", !.called = FALSE, !.submitted = Empty]
    /\ UNCHANGED <<formFrame, taskForm>>

\* onChange of an input of the card in edit mode
TaskCard_setEditedTask(field, v) ==
    /\ taskCard.rendered /\ taskCard.isEditing
    /\ taskCard' = [taskCard EXCEPT !.editedTask[field] = v, !.errors[field] = "",
                                    !.op = "edit", !.called = FALSE, !.submitted = Empty]
    /\ UNCHANGED <<formFrame, taskForm>>

\* TaskCard.handleSave: validate; when valid, hand editedTask to onEdit and
\* leave edit mode
TaskCard_handleSave ==
    /\ taskCard.rendered /\ taskCard.isEditing
    /\ LET newErrors == validateTask(taskCard.editedTask)
       IN taskCard' =
              IF newErrors # NoErrors
              THEN [taskCard EXCEPT !.errors = newErrors, !.op = "submit", !.called = FALSE, !.submitted = Empty]
              ELSE [taskCard EXCEPT !.errors = NoErrors, !.isEditing = FALSE, !.op = "submit",
                                    !.called = TRUE, !.submitted = taskCard.editedTask]
    /\ UNCHANGED <<formFrame, taskForm>>

\* TaskCard.handleCancel
TaskCard_handleCancel ==
    /\ taskCard.rendered /\ taskCard.isEditing
    /\ taskCard' = [taskCard EXCEPT !.editedTask = taskCard.task, !.errors = NoErrors,
                                    !.isEditing = FALSE, !.op = "edit", !.called = FALSE, !.submitted = Empty]
    /\ UNCHANGED <<formFrame, taskForm>>

ValidationNext ==
    \/ \E v \in TitleInputs : TaskForm_setField("title", v)
    \/ \E v \in DescriptionInputs : TaskForm_setField("description", v)
    \/ \E v \in DateInputs : TaskForm_setField("dueDate", v)
    \/ TaskForm_handleSubmit
    \/ TaskCard_setIsEditing
    \/ \E v \in TitleInputs : TaskCard_setEditedTask("title", v)
    \/ \E v \in DescriptionInputs : TaskCard_setEditedTask("description", v)
    \/ \E v \in DateInputs : TaskCard_setEditedTask("dueDate", v)
    \/ TaskCard_handleSave
    \/ TaskCard_handleCancel

ValidationSpec == ValidationInit /\ [][ValidationNext]_vars

----------------------------------------------------------------------------
(* Register and Login.  A message is a sequence of text pieces: an error   *)
(* code of the identity service is one piece, the text around it others.   *)
(* No message is the empty sequence.                                       *)

NoMessage == <<>>

\* the rejections of createUserWithEmailAndPassword / signInWithEmailAndPassword
FirebaseMessage(code) == <<"Firebase: Error (auth/", code, ").">>

AuthCodes ==
    {"invalid-credential", "user-not-found", "wrong-password", "too-many-requests",
     "email-already-in-use", "network-request-failed"}

FailureMessages ==
    {FirebaseMessage(c) : c \in AuthCodes}
        \cup {<<"wrong-password">>, <<"Network error">>,
              <<"auth/", "too-many-requests", " after auth/", "wrong-password">>}

\* the call resolves, rejects with an Error carrying a message, or rejects
\* with a value that is not an Error
AuthOutcomes ==
    {[kind |-> "resolved", message |-> NoMessage], [kind |-> "rejected", message |-> NoMessage]}
        \cup {[kind |-> "error", message |-> msg] : msg \in FailureMessages}

\* the passwords typed
Password(n, c) == [i \in 1..n |-> c]
PasswordInputs ==
    {Password(n, c) : n \in {0, MinPasswordLength - 1, MinPasswordLength}, c \in {"a", "b"}}

\* Register.handleSubmit, the checks before the call, length first
registerCheck_LengthFirst(password, confirmPassword) ==
    IF Len(password) < MinPasswordLength
    THEN <<"Password must be at least 6 characters long">>
    ELSE IF password # confirmPassword THEN <<"Passwords do not match">>
    ELSE NoMessage

\* Register.handleSubmit, the checks before the call: the message set, or
\* none when both pass
registerCheck(password, confirmPassword) ==
    IF password # confirmPassword THEN <<"Passwords do not match">>
    ELSE IF Len(password) < MinPasswordLength
    THEN <<"Password must be at least 6 characters long">>
    ELSE NoMessage

\* Register.handleSubmit, the catch block
registerErrorMessage(outcome) ==
    IF outcome.kind = "error" THEN outcome.message ELSE <<"An unknown error occurred">>

\* Login.handleSubmit, the catch block with no translation
loginErrorMessage_Verbatim(outcome) ==
    IF outcome.kind = "error" THEN outcome.message ELSE <<"An unknown error occurred">>

\* Login.handleSubmit, the catch block
loginErrorMessage(outcome) ==
    IF outcome.kind = "error"
    THEN IF \/ includes(outcome.message, <<"invalid-credential">>)
            \/ includes(outcome.message, <<"user-not-found">>)
            \/ includes(outcome.message, <<"wrong-password">>)
         THEN <<"Invalid email or password. Please try again.">>
         ELSE IF includes(outcome.message, <<"too-many-requests">>)
         THEN <<"Too many failed attempts. Please try again later.">>
         ELSE outcome.message
    ELSE <<"An unknown error occurred">>

\* useState initial values of Register; op, calls and thrown tell what the
\* latest step did
RegisterInit ==
    [rendered |-> TRUE, password |-> <<>>, confirmPassword |-> <<>>,
     error |-> NoMessage, success |-> NoMessage, loading |-> FALSE, redirect |-> "none",
     op |-> "render", calls |-> 0, thrown |-> [kind |-> "none", message |-> NoMessage]]

\* useState initial values of Login
LoginInit ==
    [rendered |-> TRUE, error |-> NoMessage, loading |-> FALSE, navigated |-> FALSE,
     op |-> "render", calls |-> 0, thrown |-> [kind |-> "none", message |-> NoMessage]]

AuthFormInit ==
    /\ HookStub(Null, <<>>)
    /\ FilterStateInit
    /\ FormStateInit
    /\ DashStateInit
    /\ RouteStateInit
    /\ \/ register = RegisterInit /\ login = NotRendered
       \/ register = NotRendered /\ login = LoginInit

\* onChange of the password and confirmation inputs
Register_setField(field, v) ==
    /\ register.rendered /\ register.redirect # "done"
    /\ register' = [register EXCEPT ![field] = v, !.op = "edit", !.calls = 0,
                                    !.thrown = RegisterInit.thrown]
    /\ UNCHANGED <<authFrame, login>>

\* Register.handleSubmit
Register_handleSubmit(outcome) ==
    /\ register.rendered /\ register.redirect # "done"
    /\ LET refused == registerCheck(register.password, register.confirmPassword)
       IN register' =
              IF refused # NoMessage
              THEN [register EXCEPT !.error = refused, !.success = NoMessage,
                                    !.op = "submit", !.calls = 0,
                                    !.thrown = RegisterInit.thrown]
              ELSE IF outcome.kind = "resolved"
              THEN [register EXCEPT
                       !.error = NoMessage,
                       !.success = <<"Account created successfully! Redirecting to dashboard...">>,
                       !.redirect = "scheduled",
                       !.op = "submit", !.calls = 1, !.thrown = RegisterInit.thrown]
              ELSE [register EXCEPT !.error = registerErrorMessage(outcome),
                                    !.success = NoMessage,
                                    !.op = "submit", !.calls = 1, !.thrown = outcome]
    /\ UNCHANGED <<authFrame, login>>

\* the timer set after a successful registration: navigate('/')
Register_redirect ==
    /\ register.rendered /\ register.redirect = "scheduled"
    /\ register' = [register EXCEPT !.redirect = "done", !.op = "timer", !.calls = 0]
    /\ UNCHANGED <<authFrame, login>>

\* Login.handleSubmit
Login_handleSubmit(outcome) ==
    /\ login.rendered /\ ~login.navigated
    /\ login' =
           IF outcome.kind = "resolved"
           THEN [login EXCEPT !.error = NoMessage, !.navigated = TRUE,
                              !.op = "submit", !.calls = 1, !.thrown = LoginInit.thrown]
           ELSE [login EXCEPT !.error = loginErrorMessage(outcome),
                              !.op = "submit", !.calls = 1, !.thrown = outcome]
    /\ UNCHANGED <<authFrame, register>>

AuthFormNext ==
    \/ \E v \in PasswordInputs : Register_setField("password", v)
    \/ \E v \in PasswordInputs : Register_setField("confirmPassword", v)
    \/ \E o \in AuthOutcomes : Register_handleSubmit(o)
    \/ Register_redirect
    \/ \E o \in AuthOutcomes : Login_handleSubmit(o)

AuthFormSpec == AuthFormInit /\ [][AuthFormNext]_vars

----------------------------------------------------------------------------
(* TaskManager: the mutating actions and their notifications.  A handler   *)
(* calls its operation and waits; when the operation settles it goes on    *)
(* in its try or its catch branch.  Time is in milliseconds; a timeout     *)
(* callback runs when it is due, before the clock moves on.  Timers due at *)
(* the same time do the same thing and are kept as one.                    *)

\* the tasks the dashboard shows: an incomplete and a completed one
DashCards ==
    <<DashTask(1, [completed |-> FALSE, category |-> "Work", priority |-> "high",
                   text |-> [title |-> <<"c">>, description |-> <<"D", "x">>]]),
      DashTask(2, [completed |-> TRUE, category |-> "Personal", priority |-> "low",
                   text |-> [title |-> <<"c">>, description |-> <<"D", "x">>]])>>

\* what a card's buttons hand to onToggle, onDelete and onEdit: the id of
\* its task prop and, for the toggle, the prop's completed flag
TaskCard_calls(task) ==
    {[op |-> "toggle", id |-> task.id, completed |-> task.completed],
     [op |-> "delete", id |-> task.id, completed |-> FALSE],
     [op |-> "update", id |-> task.id, completed |-> FALSE]}

\* the operations behind the five handlers
DashOps ==
    {[op |-> o, id |-> 0, completed |-> FALSE] : o \in {"add", "logout"}}
        \cup UNION {TaskCard_calls(tasks[i]) : i \in 1..Len(tasks)}

\* ConfirmModal: the buttons it renders; `if (!isOpen) return null`
ConfirmModal_AlwaysRendered(isOpen) == {"cancel", "confirm"}

ConfirmModal(isOpen) == IF ~isOpen THEN {} ELSE {"cancel", "confirm"}

\* variant: the flag is passed on as it is
onToggle_SameFlag(id, completed) == [id |-> id, completed |-> completed]

\* onToggle: the arguments of toggleTaskCompletion(id, !completed)
onToggle(id, completed) == [id |-> id, completed |-> ~completed]

\* onDelete: the argument of deleteTask(id)
onDelete(id) == [id |-> id]

\* the arguments a handler calls its operation with (the task fields of
\* onSubmit and onEdit are not part of this component's model)
operationArgs(p) ==
    CASE p.op = "toggle" -> onToggle(p.id, p.completed)
      [] p.op = "delete" -> onDelete(p.id)
      [] OTHER -> Empty

\* the notification of the try branch
successNotification(p) ==
    [shown |-> TRUE, type |-> "success",
     message |-> CASE p.op = "add" -> "Task created successfully!"
                   [] p.op = "update" -> "Task updated successfully!"
                   [] p.op = "delete" -> "Task deleted successfully!"
                   [] p.op = "toggle" ->
                          IF p.completed THEN "Task marked as incomplete" ELSE "Task completed!"
                   [] p.op = "logout" -> "Logged out successfully"]

\* the notification of the catch branch
failureNotification(p) ==
    [shown |-> TRUE, type |-> "error",
     message |-> CASE p.op = "add" -> "Failed to create task. Please try again."
                   [] p.op = "update" -> "Failed to update task. Please try again."
                   [] p.op = "delete" -> "Failed to delete task. Please try again."
                   [] p.op = "toggle" -> "Failed to update task. Please try again."
                   [] p.op = "logout" -> "Failed to logout. Please try again."]

\* the branch taken, with the catch branch reporting success
settledNotification_CatchSucceeds(p, outcome) ==
    IF outcome = "resolved" THEN successNotification(p)
    ELSE [failureNotification(p) EXCEPT !.type = "success"]

\* try { await operation; showNotification(.., 'success') }
\* catch { showNotification(.., 'error') }
settledNotification(p, outcome) ==
    IF outcome = "resolved" THEN successNotification(p) ELSE failureNotification(p)

\* showNotification: the notification is set and a timeout started; no
\* timeout started earlier is cleared
showNotification(n) ==
    /\ notification' = n
    /\ shownAt' = now
    /\ timers' = timers \cup {now + NotificationDelay}

DashInit ==
    /\ HookStub("u1", DashCards)
    /\ FilterStateInit
    /\ FormStateInit
    /\ AuthStateInit
    /\ DashStateInit
    /\ RouteStateInit

\* the Add Task button and the form's Cancel: setShowForm
setShowForm(v) ==
    /\ showForm # v
    /\ showForm' = v
    /\ dashEvent' = DashEvent("switch", NoOp, "none", 0)
    /\ UNCHANGED <<showLogoutModal, showDeleteModal, notification, shownAt, timers, now, pending,
                   dashFrame>>

\* the Logout button and the modal's Stay: setShowLogoutModal
setShowLogoutModal(v) ==
    /\ showLogoutModal # v
    /\ ~v => "cancel" \in ConfirmModal(showLogoutModal)
    /\ showLogoutModal' = v
    /\ dashEvent' = DashEvent("switch", NoOp, "none", 0)
    /\ UNCHANGED <<showForm, showDeleteModal, notification, shownAt, timers, now, pending, dashFrame>>

\* a card's Delete button (disabled while the card is deleting) and its
\* modal's Cancel: setShowDeleteModal
setShowDeleteModal(i, v) ==
    /\ showDeleteModal[i] # v
    /\ v => \A p \in pending : ~(p.op = "delete" /\ p.id = i)
    /\ ~v => "cancel" \in ConfirmModal(showDeleteModal[i])
    /\ showDeleteModal' = [showDeleteModal EXCEPT ![i] = v]
    /\ dashEvent' = DashEvent("switch", NoOp, "none", 0)
    /\ UNCHANGED <<showForm, showLogoutModal, notification, shownAt, timers, now, pending,
                   dashFrame>>

\* a handler up to its await: onSubmit, onToggle, onDelete, onEdit call the
\* hook's operation; handleLogout and a card's handleDelete, the onConfirm
\* of their modals, close the modal and call signOut or onDelete
HandlerCalls(p) ==
    /\ p \notin pending
    /\ Cardinality(pending) < MaxPending
    /\ p.op = "add" => showForm
    /\ p.op = "logout" => "confirm" \in ConfirmModal(showLogoutModal)
    /\ p.op = "delete" => "confirm" \in ConfirmModal(showDeleteModal[p.id])
    /\ pending' = pending \cup {p}
    /\ showLogoutModal' = IF p.op = "logout" THEN FALSE ELSE showLogoutModal
    /\ showDeleteModal' = IF p.op = "delete" THEN [showDeleteModal EXCEPT ![p.id] = FALSE]
                          ELSE showDeleteModal
    /\ dashEvent' = [DashEvent("call", p, "none", 1) EXCEPT !.args = operationArgs(p)]
    /\ UNCHANGED <<showForm, notification, shownAt, timers, now, dashFrame>>

\* a handler after its await: the try branch when the operation resolved,
\* the catch branch when it rejected
HandlerResumes(p, outcome) ==
    /\ p \in pending
    /\ pending' = pending \ {p}
    /\ showForm' = IF p.op = "add" /\ outcome = "resolved" THEN FALSE ELSE showForm
    /\ showNotification(settledNotification(p, outcome))
    /\ dashEvent' = DashEvent("settle", p, outcome, 0)
    /\ UNCHANGED <<showLogoutModal, showDeleteModal, now, dashFrame>>

\* a timeout callback: setNotification(null)
TimeoutFires(t) ==
    /\ t \in timers
    /\ t <= now
    /\ timers' = timers \ {t}
    /\ notification' = NoNotification
    /\ dashEvent' = DashEvent("timeout", NoOp, "none", 0)
    /\ UNCHANGED <<showForm, showLogoutModal, showDeleteModal, shownAt, now, pending, dashFrame>>

\* a second passes; callbacks that are due run first
Tick ==
    /\ now < MaxTicks * 1000
    /\ \A t \in timers : t > now
    /\ now' = now + 1000
    /\ dashEvent' = DashEvent("tick", NoOp, "none", 0)
    /\ UNCHANGED <<showForm, showLogoutModal, showDeleteModal, notification, shownAt, timers, pending,
                   dashFrame>>

DashNext ==
    \/ \E v \in BOOLEAN : setShowForm(v)
    \/ \E v \in BOOLEAN : setShowLogoutModal(v)
    \/ \E i \in CardIds, v \in BOOLEAN : setShowDeleteModal(i, v)
    \/ \E p \in DashOps : HandlerCalls(p)
    \/ \E p \in DashOps, outcome \in {"resolved", "rejected"} : HandlerResumes(p, outcome)
    \/ \E t \in timers : TimeoutFires(t)
    \/ Tick

DashSpec == DashInit /\ [][DashNext]_vars

----------------------------------------------------------------------------
(* The protected route: App's routes, ProtectedRoute with its own useAuth,  *)
(* and behind it TaskManager with useTasks and the useAuth of useTasks.     *)
(* The identity service tells each useAuth instance its current user in a  *)
(* callback of its own; a callback sets state, and the render that follows *)
(* is part of the same step.                                               *)

\* variant: the error banner is an early return like the loading indicator
TaskManager_render_ErrorAlone(isLoading, err) ==
    IF isLoading THEN {"spinner"}
    ELSE IF err # Null THEN {"alert"}
    ELSE {"logout", "filters", "addTask", "taskList"}

\* what TaskManager renders: the loading indicator alone, or the header
\* with Logout, the search and filter controls, the Add Task button and the
\* task list, with the error banner above them when there is an error
TaskManager_render(isLoading, err) ==
    IF isLoading THEN {"spinner"}
    ELSE {"logout", "filters", "addTask", "taskList"}
             \cup (IF err # Null THEN {"alert"} ELSE {})

Mounted == phase \in {"rendered", "active"}

\* what the dashboard shows, nothing when it is not mounted
dashView == IF Mounted THEN TaskManager_render(loading, error) ELSE {}

\* TaskManager's first render: useState initial values of useTasks and of
\* its useAuth
DashboardFirstRender ==
    /\ phase' = "rendered"
    /\ user' = Null
    /\ authLoading' = TRUE
    /\ tasks' = <<>>
    /\ loading' = TRUE
    /\ error' = Null
    /\ UNCHANGED <<cleanup, subs>>

\* TaskManager is removed: the cleanup of the effect of useTasks
DashboardUnmounts ==
    /\ phase' = "unmounted"
    /\ SetHook(EffectCleanup(Hook))
    /\ UNCHANGED <<user, authLoading>>

RouteInit ==
    /\ phase = "unmounted"
    /\ user = Null
    /\ authLoading = TRUE
    /\ tasks = <<>>
    /\ loading = TRUE
    /\ error = Null
    /\ cleanup = 0
    /\ subs = {}
    /\ db = {}
    /\ nextId = 1
    /\ last = Event("init")
    /\ FilterStateInit
    /\ FormStateInit
    /\ AuthStateInit
    /\ DashStateInit
    /\ currentUser \in Users \cup {Null}
    /\ GuardFirstRender

\* the onAuthStateChanged callback of the guard's useAuth, and the render
\* of ProtectedRoute with the new state: the dashboard is mounted under
\* <Outlet />, removed otherwise, and <Navigate> leaves for /login
GuardNotified ==
    /\ location = "/"
    /\ guardLoading \/ guardUser # currentUser
    /\ guardUser' = currentUser
    /\ guardLoading' = FALSE
    /\ LET v == ProtectedRoute(FALSE, currentUser)
       IN /\ routeView' = v
          /\ location' = IF v = "login" THEN "/login" ELSE "/"
          /\ IF v = "outlet" /\ ~Mounted THEN DashboardFirstRender
             ELSE IF v # "outlet" /\ Mounted THEN DashboardUnmounts
             ELSE UNCHANGED <<phase, user, authLoading, tasks, loading, error, cleanup, subs>>
    /\ last' = Event("guard")
    /\ UNCHANGED <<currentUser, db, nextId, routeFrame>>

\* the onAuthStateChanged callback of the useAuth inside useTasks
RepoNotified ==
    /\ authLoading \/ user # currentUser
    /\ AuthStateChanged(currentUser)

\* the create form behind the Add Task button is submitted
Route_addTask(task, dbErr) ==
    /\ "addTask" \in dashView
    /\ addTask(task, dbErr)

\* the identity service's user changes: signOut from the dashboard, or a
\* sign-in or sign-out elsewhere on the same persisted session
SessionChanges(u) ==
    /\ location = "/"
    /\ u # currentUser
    /\ currentUser' = u
    /\ last' = Event("session")
    /\ UNCHANGED <<phase, user, authLoading, tasks, loading, error, cleanup, subs, db, nextId>>
    /\ UNCHANGED <<location, guardUser, guardLoading, routeView, routeFrame>>

\* Login: signInWithEmailAndPassword resolved and navigate('/') renders a
\* new ProtectedRoute
LoginSucceeds(u) ==
    /\ location = "/login"
    /\ currentUser' = u
    /\ location' = "/"
    /\ guardUser' = Null
    /\ guardLoading' = TRUE
    /\ routeView' = ProtectedRoute(TRUE, Null)
    /\ last' = Event("login")
    /\ UNCHANGED <<phase, user, authLoading, tasks, loading, error, cleanup, subs, db, nextId>>
    /\ UNCHANGED routeFrame

RouteNext ==
    \/ GuardNotified
    \/ MountEffect
    \/ RepoNotified
    \/ \E s \in subs : SnapshotDelivered(s)
    \/ \E s \in subs : SnapshotFailed(s)
    \/ \E t \in Titles, e \in DbErrors : Route_addTask([title |-> t], e)
    \/ \E u \in Users \cup {Null} : SessionChanges(u)
    \/ \E u \in Users : LoginSucceeds(u)

RouteSpec == RouteInit /\ [][RouteNext]_vars

----------------------------------------------------------------------------
(* The dashboard with the hook behind it: the create form, the card of one  *)
(* task, TaskManager's onSubmit, onEdit and onToggle, the mutations of      *)
(* useTasks and the database with its live query.  A handler and the call  *)
(* it awaits are one step here; the call's outcome is the step's input.    *)

\* the stored task the card is rendered for
CardDoc ==
    [id |-> 1,
     data |-> [title |-> Chars(MinTitleLength), description |-> Chars(MinDescriptionLength),
               category |-> "Personal", priority |-> "medium", dueDate |-> Today,
               completed |-> FALSE, userId |-> "u1"]]

\* another title for the task, and one that is too short
OtherTitle == [i \in 1..MinTitleLength |-> "b"]
CardTitles == {OtherTitle, Chars(MinTitleLength - 1)}

\* useTasks after the first snapshot of the user's one task, the card
\* mounted for it (useState(task)), the create form closed
CardInit ==
    /\ phase = "active"
    /\ user = "u1"
    /\ authLoading = FALSE
    /\ db = {CardDoc}
    /\ nextId = 2
    /\ tasks = tasksData(QueryDocs({CardDoc}, "u1"))
    /\ loading = FALSE
    /\ error = Null
    /\ cleanup = 1
    /\ subs = {[hid |-> 1, owner |-> "u1", status |-> "live"]}
    /\ last = Event("init")
    /\ FilterStateInit
    /\ AuthStateInit
    /\ DashStateInit
    /\ RouteStateInit
    /\ taskForm = NotRendered
    /\ taskCard = [TaskCardInit EXCEPT !.task = tasksData(QueryDocs({CardDoc}, "u1"))[1],
                                       !.editedTask = tasksData(QueryDocs({CardDoc}, "u1"))[1]]

\* the Add Task button and the form's Cancel: TaskForm is mounted with its
\* initial values, or removed
Card_setShowForm(v) ==
    /\ showForm # v
    /\ showForm' = v
    /\ taskForm' = IF v THEN TaskFormInit ELSE NotRendered
    /\ dashEvent' = DashEvent("switch", NoOp, "none", 0)
    /\ UNCHANGED <<tasks, loading, error, cleanup, subs, db, nextId, taskCard,
                   notification, shownAt, timers, cardFrame>>

\* onChange of the form's title and description inputs
Card_formSetField(field, v) ==
    /\ taskForm.rendered
    /\ taskForm[field] # v
    /\ taskForm' = [taskForm EXCEPT ![field] = v, !.errors[field] = ""]
    /\ dashEvent' = DashEvent("edit", NoOp, "none", 0)
    /\ UNCHANGED <<tasks, loading, error, cleanup, subs, db, nextId, taskCard, showForm,
                   notification, shownAt, timers, cardFrame>>

\* TaskForm.handleSubmit with TaskManager's onSubmit and addTask: onSubmit
\* catches what addTask throws, so the await in handleSubmit returns either
\* way and the fields are reset; a form that onSubmit closed is gone
Card_formSubmit(dbErr) ==
    /\ taskForm.rendered
    /\ LET newErrors == validateForm(taskForm.title, taskForm.description, taskForm.dueDate)
           task == [title |-> trim(taskForm.title), description |-> trim(taskForm.description),
                    category |-> taskForm.category, priority |-> taskForm.priority,
                    dueDate |-> taskForm.dueDate]
           o == addTaskCall(user, task, dbErr, Base)
           p == [op |-> "add", id |-> 0, completed |-> FALSE]
       IN IF newErrors # NoErrors
          THEN /\ taskForm' = [taskForm EXCEPT !.errors = newErrors]
               /\ dashEvent' = DashEvent("invalid", p, "none", 0)
               /\ UNCHANGED <<db, nextId, showForm, notification, shownAt, timers>>
          ELSE /\ (dbErr = "none") => nextId <= MaxDocs
               /\ db' = o.db
               /\ nextId' = o.nextId
               /\ showForm' = (~o.ok)
               /\ showNotification(settledNotification(p, IF o.ok THEN "resolved" ELSE "rejected"))
               /\ taskForm' = IF o.ok THEN NotRendered ELSE TaskFormInit
               /\ dashEvent' = DashEvent("settle", p, IF o.ok THEN "resolved" ELSE "rejected", 1)
    /\ UNCHANGED <<tasks, loading, error, cleanup, subs, taskCard, cardFrame>>

\* the card's toggle button with TaskManager's onToggle
Card_toggle(dbErr) ==
    /\ taskCard.rendered
    /\ LET p == [op |-> "toggle", id |-> taskCard.task.id, completed |-> taskCard.task.completed]
           args == onToggle(p.id, p.completed)
           o == toggleTaskCompletionCall(args.id, args.completed, dbErr, Base)
       IN /\ db' = o.db
          /\ nextId' = o.nextId
          /\ showNotification(settledNotification(p, IF o.ok THEN "resolved" ELSE "rejected"))
          /\ dashEvent' = DashEvent("settle", p, IF o.ok THEN "resolved" ELSE "rejected", 1)
    /\ UNCHANGED <<tasks, loading, error, cleanup, subs, taskForm, taskCard, showForm, cardFrame>>

\* the card's Edit button: setIsEditing(true)
Card_setIsEditing ==
    /\ taskCard.rendered /\ ~taskCard.isEditing
    /\ taskCard' = [taskCard EXCEPT !.isEditing = TRUE]
    /\ dashEvent' = DashEvent("switch", NoOp, "none", 0)
    /\ UNCHANGED <<tasks, loading, error, cleanup, subs, db, nextId, taskForm, showForm,
                   notification, shownAt, timers, cardFrame>>

\* onChange of the card's title input
Card_setEditedTask(field, v) ==
    /\ taskCard.rendered /\ taskCard.isEditing
    /\ taskCard.editedTask[field] # v
    /\ taskCard' = [taskCard EXCEPT !.editedTask[field] = v, !.errors[field] = ""]
    /\ dashEvent' = DashEvent("edit", NoOp, "none", 0)
    /\ UNCHANGED <<tasks, loading, error, cleanup, subs, db, nextId, taskForm, showForm,
                   notification, shownAt, timers, cardFrame>>

\* TaskCard.handleSave with TaskManager's onEdit and updateTask: onEdit
\* catches what updateTask throws, so the await in handleSave returns either
\* way and the card leaves edit mode
Card_handleSave(dbErr) ==
    /\ taskCard.rendered /\ taskCard.isEditing
    /\ LET newErrors == validateTask(taskCard.editedTask)
           p == [op |-> "update", id |-> taskCard.task.id, completed |-> FALSE]
           o == updateTaskCall(taskCard.task.id, taskCard.editedTask, dbErr, Base)
       IN IF newErrors # NoErrors
          THEN /\ taskCard' = [taskCard EXCEPT !.errors = newErrors]
               /\ dashEvent' = DashEvent("invalid", p, "none", 0)
               /\ UNCHANGED <<db, nextId, notification, shownAt, timers>>
          ELSE /\ db' = o.db
               /\ nextId' = o.nextId
               /\ showNotification(settledNotification(p, IF o.ok THEN "resolved" ELSE "rejected"))
               /\ taskCard' = [taskCard EXCEPT !.errors = NoErrors, !.isEditing = FALSE]
               /\ dashEvent' = DashEvent("settle", p, IF o.ok THEN "resolved" ELSE "rejected", 1)
    /\ UNCHANGED <<tasks, loading, error, cleanup, subs, taskForm, showForm, cardFrame>>

\* TaskCard.handleCancel
Card_handleCancel ==
    /\ taskCard.rendered /\ taskCard.isEditing
    /\ taskCard' = [taskCard EXCEPT !.editedTask = taskCard.task, !.errors = NoErrors,
                                              !.isEditing = FALSE]
    /\ dashEvent' = DashEvent("cancel", NoOp, "none", 0)
    /\ UNCHANGED <<tasks, loading, error, cleanup, subs, db, nextId, taskForm, showForm,
                   notification, shownAt, timers, cardFrame>>

\* the live query delivers the changed documents: setTasks, and the card
\* is rendered again with its task as the new prop
Card_SnapshotDelivered(s) ==
    /\ s \in subs
    /\ s.status # "failed"
    /\ LET docs == QueryDocs(db, s.owner)
           h == SnapshotNext(Hook, docs)
       IN /\ h.tasks # tasks
          /\ SetHook([h EXCEPT !.subs = (subs \ {s}) \cup {[s EXCEPT !.status = "live"]}])
          /\ taskCard' = [taskCard EXCEPT !.task = h.tasks[1]]
    /\ dashEvent' = DashEvent("snapshot", NoOp, "none", 0)
    /\ UNCHANGED <<db, nextId, taskForm, showForm, notification, shownAt, timers, cardFrame>>

\* the same user gives the task another title in another session
ExternalWrite ==
    /\ \E d \in db : d.id = CardDoc.id /\ d.data.title # OtherTitle
    /\ db' = updateDoc(Base, CardDoc.id, [title |-> OtherTitle], "none").db
    /\ dashEvent' = DashEvent("external", NoOp, "none", 0)
    /\ UNCHANGED <<tasks, loading, error, cleanup, subs, nextId, taskForm, taskCard, showForm,
                   notification, shownAt, timers, cardFrame>>

CardNext ==
    \/ \E v \in BOOLEAN : Card_setShowForm(v)
    \/ Card_formSetField("title", Chars(MinTitleLength))
    \/ Card_formSetField("description", Chars(MinDescriptionLength))
    \/ \E e \in DbErrors : Card_formSubmit(e)
    \/ \E e \in DbErrors : Card_toggle(e)
    \/ Card_setIsEditing
    \/ \E v \in CardTitles : Card_setEditedTask("title", v)
    \/ \E e \in DbErrors : Card_handleSave(e)
    \/ Card_handleCancel
    \/ \E s \in subs : Card_SnapshotDelivered(s)
    \/ ExternalWrite

CardSpec == CardInit /\ [][CardNext]_vars

----------------------------------------------------------------------------
(* Properties *)

MutationOps == {"add", "update", "delete", "toggle"}

\* C1: in every state of the mounted hook, every task of the in-memory
\* collection is owned by the current user identity, and the collection is
\* empty when the identity is null.
C1_TasksOwnedByCurrentUser ==
    phase = "active" =>
        IF user = Null THEN tasks = <<>>
        ELSE \A i \in 1..Len(tasks) : tasks[i].userId = user

\* C2: once the effects have run, a null identity means an empty task
\* collection, loading = false and no live-query listener open.
C2_NullIdentityYieldsEmpty ==
    (phase # "rendered" /\ user = Null) =>
        (tasks = <<>> /\ loading = FALSE /\ subs = {} /\ cleanup = 0)

C2_Witness ==
    /\ last.op = "auth"
    /\ last.prevUser \in Users
    /\ user = Null
    /\ tasks = <<>>
    /\ \E d \in db : d.data.userId = last.prevUser

\* C3: while the hook's live query is open and has delivered neither a
\* snapshot nor an error, loading is true.
C3_LoadingWhileFetching ==
    \A s \in subs :
        (phase = "active" /\ s.hid = cleanup /\ s.status = "pending") => loading = TRUE

\* C4: right after a snapshot is delivered, the task collection holds exactly
\* the snapshot's documents, one task per document in the same order, each
\* task being the document's id plus the document's data, and loading is
\* false.
C4_SnapshotReplacesTasks ==
    last.op = "snapshot" =>
        /\ loading = FALSE
        /\ Len(tasks) = Len(last.docs)
        /\ \A i \in 1..Len(last.docs) :
              /\ DOMAIN tasks[i] = {"id"} \cup DOMAIN last.docs[i].data
              /\ tasks[i].id = last.docs[i].id
              /\ \A k \in DOMAIN last.docs[i].data : tasks[i][k] = last.docs[i].data[k]

C4_Witness ==
    /\ last.op = "snapshot"
    /\ Len(last.docs) = 1
    /\ Len(tasks) = 1
    /\ tasks[1].completed = TRUE
    /\ nextId > 2

\* C5: at most one live-query listener is open at any time, the open one is
\* the one the hook holds the unsubscribe function of, for the current user,
\* and none is open after unmount.
C5_AtMostOneSubscription ==
    /\ Cardinality(subs) <= 1
    /\ \A s \in subs : s.hid = cleanup /\ s.owner = user
    /\ phase = "unmounted" => subs = {}

C5_Witness ==
    /\ last.op = "auth"
    /\ last.prevUser \in Users
    /\ user \in Users
    /\ user # last.prevUser
    /\ Cardinality(subs) = 1

\* C6: an addTask call made while the identity is null rejects with 'User
\* not authenticated', attempts no database write and leaves the database
\* as it was.
C6_AddUnauthenticated ==
    [][(last'.op = "add" /\ user = Null) =>
          /\ last'.result = "User not authenticated"
          /\ last'.writes = 0
          /\ db' = db
          /\ nextId' = nextId]_vars

C6_Witness ==
    /\ last.op = "add"
    /\ user = Null
    /\ last.result = "User not authenticated"

\* C7: the record an addTask call with a signed-in user submits has
\* completed = false and userId = the current user, whatever the caller
\* supplied under those names, and every other caller field unchanged.
C7_AddRecordDefaults ==
    (last.op = "add" /\ user # Null) =>
        /\ last.writes = 1
        /\ last.sent.completed = FALSE
        /\ last.sent.userId = user
        /\ \A k \in DOMAIN last.payload \ {"completed", "userId"} :
              k \in DOMAIN last.sent /\ last.sent[k] = last.payload[k]
        /\ DOMAIN last.sent = DOMAIN last.payload \cup {"completed", "userId"}
        /\ last.ok => \E d \in db : d.data = last.sent

C7_Witness ==
    /\ last.op = "add"
    /\ last.ok
    /\ user \in Users
    /\ "completed" \in DOMAIN last.payload
    /\ "userId" \in DOMAIN last.payload
    /\ last.payload.completed = TRUE
    /\ last.payload.userId # user

\* C8: no mutation call changes tasks, loading or error, and the task
\* collection changes only when a snapshot is delivered or the identity
\* becomes null.
C8_NoOptimisticUpdate ==
    [][/\ last'.op \in MutationOps =>
            (tasks' = tasks /\ loading' = loading /\ error' = error)
       /\ tasks' # tasks =>
            (last'.op = "snapshot" \/ (last'.op = "auth" /\ user' = Null))]_vars

C8_Witness ==
    /\ last.op = "delete"
    /\ last.ok
    /\ \E i \in 1..Len(tasks) : \A d \in db : d.id # tasks[i].id

\* C9: a mutation call that reaches the database attempts exactly one write;
\* when the write fails the call rejects with the fixed message of its
\* operation kind, and when it succeeds the call resolves.
C9_FailureMessage(op) ==
    CASE op = "add" -> "Failed to add task"
      [] op = "update" -> "Failed to update task"
      [] op = "delete" -> "Failed to delete task"
      [] op = "toggle" -> "Failed to update task status"

C9_FixedFailureMessages ==
    (last.op \in MutationOps /\ last.result # "User not authenticated") =>
        /\ last.writes = 1
        /\ last.ok => last.result = "ok"
        /\ ~last.ok => last.result = C9_FailureMessage(last.op)

C9_Witness ==
    /\ last.op = "toggle"
    /\ ~last.ok
    /\ last.writes = 1
    /\ last.result = "Failed to update task status"

\* C10: a live-query error sets error to the fixed message and loading to
\* false and leaves the task collection as it was; opening a listener for a
\* new non-null identity sets error back to null.
C10_SubscriptionError ==
    [][/\ last'.op = "snapError" =>
            /\ error' = "Failed to load tasks. Please refresh the page."
            /\ loading' = FALSE
            /\ tasks' = tasks
       /\ (last'.op = "auth" /\ user' # Null /\ user' # user) =>
            (error' = Null /\ \E s \in subs' : s.owner = user' /\ s.status = "pending")]_vars

C10_Witness ==
    /\ last.op = "snapError"
    /\ Len(tasks) > 0
    /\ error = "Failed to load tasks. Please refresh the page."
    /\ loading = FALSE

\* the cached collection holds exactly the database's documents of user u
TasksMatchDb(u) ==
    LET owned == {d \in db : d.data.userId = u}
    IN /\ Len(tasks) = Cardinality(owned)
       /\ \A d \in owned :
             \E i \in 1..Len(tasks) :
                 /\ tasks[i].id = d.id
                 /\ \A k \in DOMAIN d.data : tasks[i][k] = d.data[k]

\* C11: while a user is signed in and the live query does not fail, the
\* cached collection eventually equals the database's set of the signed-in
\* user's tasks, whatever mutations were made before.
C11_EventuallyConsistent ==
    (phase = "active" /\ user \in Users)
        ~> (\/ user \in Users /\ TasksMatchDb(user)
            \/ user = Null
            \/ phase # "active"
            \/ \E s \in subs : s.status = "failed")

C11_Witness ==
    /\ last.op = "snapshot"
    /\ user \in Users
    /\ Len(tasks) = 1
    /\ tasks[1].completed = TRUE
    /\ TasksMatchDb(user)

\* C12: the session starts with user = null and loading = true; an
\* auth-state notification sets user to the delivered identity and loading
\* to false in one step; loading never goes back to true; after teardown
\* the session no longer changes.
C12_SessionStore ==
    [][/\ phase = "rendered" => (user = Null /\ authLoading = TRUE)
       /\ last'.op = "auth" => (user' = last'.delivered /\ authLoading' = FALSE)
       /\ (user' # user \/ authLoading' # authLoading) => last'.op = "auth"
       /\ authLoading = FALSE => authLoading' = FALSE
       /\ phase = "unmounted" => (user' = user /\ authLoading' = authLoading)]_vars

C12_Witness ==
    /\ last.op = "auth"
    /\ last.prevUser \in Users
    /\ last.delivered = Null
    /\ user = Null
    /\ authLoading = FALSE

(* The filter combinator, stated without the code's operators *)

LetterPairs == {<<"A", "a">>, <<"B", "b">>, <<"D", "d">>}

SameLetter(a, b) == a = b \/ <<a, b>> \in LetterPairs \/ <<b, a>> \in LetterPairs

ContainsIgnoringCase(s, q) ==
    \E off \in 0..(Len(s) - Len(q)) : \A k \in 1..Len(q) : SameLetter(s[off + k], q[k])

PassesStatus(t) ==
    \/ filter = "all"
    \/ filter = "completed" /\ t.completed
    \/ filter = "active" /\ ~t.completed

PassesCategory(t) == categoryFilter = "all" \/ t.category = categoryFilter

PassesPriority(t) == priorityFilter = "all" \/ t.priority = priorityFilter

MatchesSearch(t) ==
    \/ ContainsIgnoringCase(t.title, searchQuery)
    \/ ContainsIgnoringCase(t.description, searchQuery)

Shown(t) == \E j \in 1..Len(filteredTasks) : filteredTasks[j] = t

\* C13 as stated: whenever the search text is non-empty, the filtered view
\* is exactly the tasks whose title or description contains the text
\* case-insensitively, whatever the status, category and priority filters.
C13_SearchShortCircuits ==
    searchQuery # <<>> => filteredTasks = SelectSeq(tasks, MatchesSearch)

\* C13 amended: whenever the search text is non-empty, the filtered view is
\* exactly the tasks that pass the status, category and priority filters and
\* whose title or description contains the text case-insensitively.
C13_SearchNarrowsOtherFilters ==
    searchQuery # <<>> =>
        filteredTasks =
            SelectSeq(tasks, LAMBDA t : /\ PassesStatus(t)
                                        /\ PassesCategory(t)
                                        /\ PassesPriority(t)
                                        /\ MatchesSearch(t))

C13_Witness ==
    /\ searchQuery # <<>>
    /\ Len(filteredTasks) = 1
    /\ \E i \in 1..Len(tasks) :
          MatchesSearch(tasks[i]) /\ ~PassesCategory(tasks[i]) /\ ~Shown(tasks[i])

\* C14: for every task collection and every combination of the four
\* filters, a task is in the filtered view iff it passes the status filter
\* and the category filter and the priority filter and the search text is
\* empty or contained case-insensitively in its title or description.
C14_FiltersConjunctive ==
    /\ \A i \in 1..Len(tasks) :
          Shown(tasks[i]) <=> /\ PassesStatus(tasks[i])
                              /\ PassesCategory(tasks[i])
                              /\ PassesPriority(tasks[i])
                              /\ (searchQuery = <<>> \/ MatchesSearch(tasks[i]))
    /\ \A j \in 1..Len(filteredTasks) : \E i \in 1..Len(tasks) : tasks[i] = filteredTasks[j]

C14_Witness ==
    /\ filter # "all" /\ categoryFilter # "all" /\ priorityFilter # "all"
    /\ searchQuery # <<>>
    /\ Len(tasks) = 2
    /\ Len(filteredTasks) = 1
    /\ \E i \in 1..2 :
          /\ ~Shown(tasks[i])
          /\ PassesStatus(tasks[i]) /\ PassesCategory(tasks[i]) /\ MatchesSearch(tasks[i])

IsSubsequenceOf(out, in) ==
    \E idx \in [1..Len(out) -> 1..Len(in)] :
        /\ \A j \in 1..Len(out) : out[j] = in[idx[j]]
        /\ \A j \in 1..(Len(out) - 1) : idx[j] < idx[j + 1]

\* C15: for every task collection and every combination of the four
\* filters, the filtered view is a sub-sequence of the collection in the
\* original order, filtering leaves the collection as it was, and filtering
\* the view again with the same filters returns the view.
C15_SubsequenceIdempotent ==
    [][/\ tasks' = tasks
       /\ IsSubsequenceOf(filteredTasks', tasks')
       /\ filterTasks(filteredTasks', filter', categoryFilter', priorityFilter', searchQuery')
              = filteredTasks']_vars

C15_Witness ==
    /\ Len(tasks) = 2
    /\ Len(filteredTasks) = 2
    /\ filter # "all" /\ searchQuery # <<>>

(* Task validation, stated without the code's trim *)

\* the length of a text from its first to its last non-blank character
TrimmedLength(s) ==
    LET solid == {i \in 1..Len(s) : s[i] # " "}
    IN IF solid = {} THEN 0
       ELSE (CHOOSE i \in solid : \A j \in solid : j <= i)
            - (CHOOSE i \in solid : \A j \in solid : i <= j) + 1

TextsAccepted(title, description) ==
    TrimmedLength(title) >= 3 /\ TrimmedLength(description) >= 10

\* C16 as stated: the create form's validateForm and the card's
\* validateTask accept iff the trimmed title has at least 3 characters and
\* the trimmed description has at least 10 characters.
C16_AcceptsIffTexts ==
    [][/\ (taskForm.rendered /\ taskForm'.op = "submit") =>
              (taskForm'.called
                   <=> TextsAccepted(taskForm.title, taskForm.description))
       /\ (taskCard.rendered /\ taskCard'.op = "submit") =>
              (taskCard'.called
                   <=> TextsAccepted(taskCard.editedTask.title, taskCard.editedTask.description))
      ]_vars

\* C16 amended: the card's validateTask accepts iff the trimmed title has
\* at least 3 characters and the trimmed description has at least 10
\* characters; the create form's validateForm accepts iff, in addition, the
\* due date is not empty.
C16_AcceptsIffTextsAndDueDate ==
    [][/\ (taskForm.rendered /\ taskForm'.op = "submit") =>
              (taskForm'.called
                   <=> /\ TextsAccepted(taskForm.title, taskForm.description)
                       /\ taskForm.dueDate # "")
       /\ (taskCard.rendered /\ taskCard'.op = "submit") =>
              (taskCard'.called
                   <=> TextsAccepted(taskCard.editedTask.title, taskCard.editedTask.description))
      ]_vars

C16_Witness ==
    /\ taskForm.rendered
    /\ taskForm.op = "submit"
    /\ ~taskForm.called
    /\ TextsAccepted(taskForm.title, taskForm.description)
    /\ Len(taskForm.title) > TrimmedLength(taskForm.title)
    /\ taskForm.dueDate = ""
    /\ taskForm.errors = [title |-> "", description |-> "", dueDate |-> "Due date is required"]

(* Registration and login *)

\* C17: registration calls the identity service iff the password equals
\* the confirmation and has at least 6 characters; otherwise no call is
\* made and an error is shown: 'Passwords do not match' on a mismatch, also
\* when the password is too short as well, and 'Password must be at least 6
\* characters long' for a matching password shorter than 6.
C17_RegistrationChecks ==
    (register.rendered /\ register.op = "submit") =>
        LET same == register.password = register.confirmPassword
            long == Len(register.password) >= 6
        IN /\ register.calls = 1 <=> (same /\ long)
           /\ ~(same /\ long) => register.calls = 0
           /\ ~same => register.error = <<"Passwords do not match">>
           /\ (same /\ ~long) =>
                  register.error = <<"Password must be at least 6 characters long">>

C17_Witness ==
    /\ register.rendered /\ register.op = "submit"
    /\ register.password # register.confirmPassword
    /\ Len(register.password) = 5
    /\ register.calls = 0
    /\ register.error = <<"Passwords do not match">>

Mentions(msg, code) == \E i \in 1..Len(msg) : msg[i] = code

CredentialFailure(msg) ==
    \/ Mentions(msg, "invalid-credential")
    \/ Mentions(msg, "user-not-found")
    \/ Mentions(msg, "wrong-password")

\* C18: a failure of the identity service is shown as received, except
\* that on login a message containing 'invalid-credential', 'user-not-found'
\* or 'wrong-password' is shown as 'Invalid email or password. Please try
\* again.' and, failing that, one containing 'too-many-requests' is shown as
\* 'Too many failed attempts. Please try again later.'; on registration
\* every failure message is shown as received.
C18_FailureMessagesShown ==
    /\ (login.rendered /\ login.op = "submit" /\ login.thrown.kind = "error") =>
           LET msg == login.thrown.message
           IN login.error =
                  IF CredentialFailure(msg)
                  THEN <<"Invalid email or password. Please try again.">>
                  ELSE IF Mentions(msg, "too-many-requests")
                  THEN <<"Too many failed attempts. Please try again later.">>
                  ELSE msg
    /\ (register.rendered /\ register.op = "submit" /\ register.thrown.kind = "error") =>
           register.error = register.thrown.message

C18_Witness ==
    /\ login.rendered /\ login.op = "submit"
    /\ login.thrown = [kind |-> "error", message |-> <<"Firebase: Error (auth/", "too-many-requests", ").">>]
    /\ login.error = <<"Too many failed attempts. Please try again later.">>

(* Notifications of the dashboard *)

\* C19: a notification is never cleared earlier than 3 seconds after it was
\* shown, except by being replaced by a newer notification: the timeout
\* started for an earlier notification never clears a later one.
C19_NoPrematureDismissal ==
    [][(notification.shown /\ ~notification'.shown) => now >= shownAt + 3000]_vars

C30_OnlyAddGuarded ==
    /\ last.result = "User not authenticated" => last.op = "add"
    /\ last.op \in {"update", "delete", "toggle"} =>
          /\ last.writes = 1
          /\ (last.result = "ok") <=> last.ok

C30_Witness ==
    /\ last.op = "delete"
    /\ user = Null
    /\ tasks = <<>>
    /\ last.writes = 1
    /\ last.result = "ok"

(* The dashboard's cards and confirmation modals *)

\* C21: the toggle control of a card whose task is shown with completed = c
\* calls toggleTaskCompletion with the task's id and not c, and when that
\* call resolves the notification is 'Task completed!' if c was false and
\* 'Task marked as incomplete' if c was true.
C21_ToggleNegatesDisplayedFlag ==
    [][/\ \A p \in pending' \ pending :
              p.op = "toggle" =>
                  /\ \E i \in 1..Len(tasks) :
                         tasks[i].id = p.id /\ tasks[i].completed = p.completed
                  /\ dashEvent'.args = [id |-> p.id, completed |-> ~p.completed]
       /\ \A p \in pending \ pending' :
              (p.op = "toggle" /\ dashEvent'.outcome = "resolved") =>
                  /\ notification'.shown
                  /\ notification'.type = "success"
                  /\ ~p.completed => notification'.message = "Task completed!"
                  /\ p.completed => notification'.message = "Task marked as incomplete"]_vars

C21_Witness ==
    /\ dashEvent.kind = "settle"
    /\ dashEvent.op = [op |-> "toggle", id |-> 1, completed |-> FALSE]
    /\ dashEvent.outcome = "resolved"
    /\ tasks[1].id = 1 /\ ~tasks[1].completed
    /\ notification.shown /\ notification.message = "Task completed!"

\* C22: signOut is called only by the confirm button of the open logout
\* modal and deleteTask(id) only by the confirm button of that task's open
\* delete modal, with the task's id, and the modal is closed by the call;
\* a step that only flips a switch (a modal's cancel among them) calls no
\* operation.
C22_DestructiveNeedsConfirmation ==
    [][/\ \A p \in pending' \ pending :
              /\ p.op = "logout" => (showLogoutModal /\ ~showLogoutModal')
              /\ p.op = "delete" =>
                     /\ showDeleteModal[p.id] /\ ~showDeleteModal'[p.id]
                     /\ dashEvent'.args = [id |-> p.id]
       /\ (showLogoutModal /\ ~showLogoutModal') =>
              (dashEvent'.kind = "switch" \/ \E p \in pending' \ pending : p.op = "logout")
       /\ dashEvent'.kind = "switch" => pending' = pending]_vars

C22_Witness ==
    /\ dashEvent.kind = "call"
    /\ dashEvent.op.op = "delete"
    /\ dashEvent.op.id = 2
    /\ showDeleteModal = [i \in CardIds |-> i = 1]
    /\ ~showLogoutModal

(* The protected route *)

\* C23: the protected route shows only the loading indicator while its
\* session is loading, redirects to /login once loading is false and the
\* user is null, and renders the dashboard only when loading is false and
\* the user is non-null; the dashboard is mounted in no other case.
C23_GuardedDashboard ==
    /\ Mounted => (location = "/" /\ routeView = "outlet")
    /\ routeView = "outlet" => (~guardLoading /\ guardUser # Null /\ Mounted)
    /\ guardLoading => routeView = "loading"
    /\ (~guardLoading /\ guardUser = Null) => (routeView = "login" /\ location = "/login")

C23_Witness ==
    /\ last.op = "guard"
    /\ routeView = "login"
    /\ location = "/login"
    /\ guardUser = Null
    /\ ~Mounted
    /\ \E d \in db : TRUE

DashboardParts == {"logout", "filters", "addTask", "taskList"}

\* C24: while the repository is loading the dashboard renders the loading
\* indicator and nothing else; once loading is false it renders the logout
\* control, the filter controls, the create-form toggle and the task list,
\* together with the error banner exactly when error is non-null.
C24_LoadingAloneErrorAbove ==
    Mounted =>
        /\ loading => dashView = {"spinner"}
        /\ ~loading =>
              /\ DashboardParts \subseteq dashView
              /\ "spinner" \notin dashView
              /\ "alert" \in dashView <=> error # Null

C24_Witness ==
    /\ phase = "active"
    /\ last.op = "snapError"
    /\ error = LoadFailed
    /\ ~loading
    /\ dashView = DashboardParts \cup {"alert"}

\* C24 as stated: when loading is true or error is non-null the dashboard
\* renders only that state, and the task view, the create-form toggle and
\* the logout flow only when the repository is neither loading nor in error.
C24_LoadingOrErrorAlone ==
    Mounted =>
        /\ (loading \/ error # Null) => dashView \cap DashboardParts = {}
        /\ (~loading /\ error = Null) => dashView = DashboardParts

\* C29: while the route's session has a user and the dashboard offers its
\* add action, the identity of the task repository is not null, and an
\* addTask call made from the dashboard does not reject with 'User not
\* authenticated'.
C29_RepositoryIdentityBehindRoute ==
    (routeView = "outlet" /\ guardUser # Null) =>
        /\ "addTask" \in dashView => user # Null
        /\ last.op = "add" => last.result # "User not authenticated"

(* Validation in front of the repository *)

\* the text between the first and the last character that is not a space
Trimmed(s) ==
    LET solid == {i \in 1..Len(s) : s[i] # " "}
    IN IF solid = {} THEN <<>>
       ELSE SubSeq(s, CHOOSE i \in solid : \A j \in solid : i <= j,
                      CHOOSE i \in solid : \A j \in solid : j <= i)

\* C25: the create form calls onSubmit iff the trimmed title has at least 3
\* characters, the trimmed description at least 10 and the due date is not
\* empty, and hands over the trimmed title and description; the card's save
\* calls onEdit iff title and description pass the same length rules; a
\* rejected submit or save calls nothing, hands nothing over and records an
\* error for exactly the failing fields.
C25_ValidationShortCircuits ==
    [][/\ (taskForm.rendered /\ taskForm'.op = "submit") =>
              LET okTitle == Len(Trimmed(taskForm.title)) >= 3
                  okDescription == Len(Trimmed(taskForm.description)) >= 10
                  okDate == taskForm.dueDate # ""
              IN /\ taskForm'.called <=> (okTitle /\ okDescription /\ okDate)
                 /\ taskForm'.called =>
                        /\ taskForm'.submitted.title = Trimmed(taskForm.title)
                        /\ taskForm'.submitted.description = Trimmed(taskForm.description)
                        /\ taskForm'.submitted.dueDate = taskForm.dueDate
                 /\ ~taskForm'.called =>
                        /\ taskForm'.submitted = Empty
                        /\ taskForm'.errors.title # "" <=> ~okTitle
                        /\ taskForm'.errors.description # "" <=> ~okDescription
                        /\ taskForm'.errors.dueDate # "" <=> ~okDate
       /\ (taskCard.rendered /\ taskCard'.op = "submit") =>
              LET okTitle == Len(Trimmed(taskCard.editedTask.title)) >= 3
                  okDescription == Len(Trimmed(taskCard.editedTask.description)) >= 10
              IN /\ taskCard'.called <=> (okTitle /\ okDescription)
                 /\ ~taskCard'.called =>
                        /\ taskCard'.submitted = Empty
                        /\ taskCard'.isEditing
                        /\ taskCard'.errors.title # "" <=> ~okTitle
                        /\ taskCard'.errors.description # "" <=> ~okDescription
                        /\ taskCard'.errors.dueDate = ""
      ]_vars

C25_Witness ==
    /\ taskCard.rendered
    /\ taskCard.op = "submit"
    /\ ~taskCard.called
    /\ taskCard.submitted = Empty
    /\ taskCard.editedTask.dueDate = ""
    /\ Len(taskCard.editedTask.title) >= 3
    /\ taskCard.errors.title # ""
    /\ taskCard.errors.description = ""

(* The forms and the repository *)

EditFields == {"title", "description", "priority", "dueDate"}

\* C26: the create form is reset and hidden only when addTask resolved and
\* stays open with the entered values when addTask rejected; the card
\* leaves edit mode through a save only when updateTask resolved and stays
\* in edit mode when it rejected.
C26_FormsReflectSuccessOnly ==
    [][/\ (dashEvent'.kind = "settle" /\ dashEvent'.op.op = "add") =>
              IF dashEvent'.outcome = "resolved" THEN ~showForm'
              ELSE /\ showForm'
                   /\ taskForm'.rendered
                   /\ taskForm'.title = taskForm.title
                   /\ taskForm'.description = taskForm.description
       /\ (dashEvent'.kind = "settle" /\ dashEvent'.op.op = "update") =>
              (taskCard'.isEditing <=> dashEvent'.outcome = "rejected")]_vars

\* C27: whenever the card enters edit mode, its edit fields hold the title,
\* description, priority and due date of the task as last delivered.
C27_EditStartsFromCurrentTask ==
    [][(~taskCard.isEditing /\ taskCard'.isEditing) =>
           \A f \in EditFields : taskCard'.editedTask[f] = taskCard'.task[f]]_vars

\* C28: a save from the card leaves the stored completed flag of its task
\* as it was just before the save.
C28_SaveKeepsCompleted ==
    [][(dashEvent'.kind = "settle" /\ dashEvent'.op.op = "update") =>
           \A d \in db, e \in db' : d.id = e.id => e.data.completed = d.data.completed]_vars

====
